---- MODULE Spec2Model ----
(***************************************************************************)
(* metalsmith-mapsite (src/lib/index.js): plugin(opts) validates the       *)
(* options and returns a stage function; the stage walks the file set,     *)
(* builds one sitemap entry per included file, pipes the entries into the  *)
(* sitemap serializer and, when the serializer's promise resolves, writes  *)
(* the document into the file set and calls done().                        *)
(*                                                                         *)
(* JavaScript values are modelled as follows.                              *)
(*   objects     functions whose DOMAIN is the set of own keys             *)
(*   strings     TLA+ strings; numbers are written "0", "0.3", "0.9"       *)
(*   undefined   SUndef (scalars), UndefD (dates)                          *)
(*   paths/urls  sequences of tokens: "blog/index.html" is                 *)
(*               <<"blog", "/", "index", ".", "html">>                     *)
(*   dates       records [k, y, m, d, wd, s, n] (see below)                *)
(***************************************************************************)
EXTENDS Integers, Sequences, FiniteSets, TLC

\* ------------------------------------------------------------- bounds
\* Largest number of files in a file set.
MaxFiles == 3

\* ------------------------------------------------------------- objects
\* The object without own properties, {}.
EmptyObj == [k \in {} |-> TRUE]

\* o.hasOwnProperty(k)
Has(o, k) == k \in DOMAIN o

\* ------------------------------------------------------------- scalars
SUndef == "<undefined>"

\* Strings that denote numbers.
Numeric == {"0", "0.3", "0.5", "0.8", "0.9"}

\* isNaN(v) of a number-denoting string, another string, or undefined.
IsNaN(v) == v \notin Numeric

\* ToBoolean(v) of a scalar: undefined, the number 0 and "" are falsy.
Truthy(v) == v \notin {SUndef, "0", ""}

\* o[k] of a scalar-valued property: undefined when k is not an own key.
Get(o, k) == IF Has(o, k) THEN o[k] ELSE SUndef

\* ToBoolean(o[k]) of a boolean-valued property (omitIndex, private, ...).
Flag(o, k) == IF Has(o, k) THEN o[k] ELSE FALSE

\* ------------------------------------------------------------- dates
\* k = "undef"   undefined
\* k = "null"    null
\* k = "str"     a string Date cannot parse
\* k = "iso"     the date-only ISO string y-m-d, e.g. "2021-06-01"
\* k = "date"    a Date object, n seconds after the epoch
\* k = "http"    the string "wd, d m y hh:mm:ss GMT", s seconds into the day
\* k = "invalid" the string "Invalid Date"
DateRec(k, y, m, d, wd, s, n) ==
  [k |-> k, y |-> y, m |-> m, d |-> d, wd |-> wd, s |-> s, n |-> n]

UndefD == DateRec("undef", 0, 0, 0, 0, 0, 0)
NullD == DateRec("null", 0, 0, 0, 0, 0, 0)
InvalidDateString == DateRec("invalid", 0, 0, 0, 0, 0, 0)
Iso(y, m, d) == DateRec("iso", y, m, d, 0, 0, 0)
DateObj(n) == DateRec("date", 0, 0, 0, 0, 0, n)
Http(wd, d, m, y, s) == DateRec("http", y, m, d, wd, s, 0)

\* ToBoolean(v) of a date-valued property: undefined and null are falsy,
\* Date objects and non-empty strings are truthy.
TruthyD(v) == v.k \notin {"undef", "null"}

GetD(o, k) == IF Has(o, k) THEN o[k] ELSE UndefD

SecondsPerDay == 86400

\* Days from 1970-01-01 to the civil date y-m-d (proleptic Gregorian).
DaysFromCivil(y, m, d) ==
  LET yy == IF m <= 2 THEN y - 1 ELSE y
      era == yy \div 400
      yoe == yy - era * 400
      mp == IF m > 2 THEN m - 3 ELSE m + 9
      doy == (153 * mp + 2) \div 5 + d - 1
      doe == yoe * 365 + yoe \div 4 - yoe \div 100 + doy
  IN  era * 146097 + doe - 719468

\* The civil date <<y, m, d>> of the day z days after 1970-01-01.
CivilFromDays(z) ==
  LET zz == z + 719468
      era == zz \div 146097
      doe == zz - era * 146097
      yoe == (doe - doe \div 1460 + doe \div 36524 - doe \div 146096) \div 365
      doy == doe - (365 * yoe + yoe \div 4 - yoe \div 100)
      mp == (5 * doy + 2) \div 153
      d == doy - (153 * mp + 2) \div 5 + 1
      m == IF mp < 10 THEN mp + 3 ELSE mp - 9
      y == yoe + era * 400 + (IF m <= 2 THEN 1 ELSE 0)
  IN  <<y, m, d>>

\* Day of the week of the day z days after 1970-01-01 (a Thursday); 0 = Sun.
WeekDay(z) == (z + 4) % 7

\* new Date(v).getTime() in seconds; -1 stands for NaN (an invalid Date).
TimeValue(v) ==
  CASE v.k = "null" -> 0
    [] v.k = "iso" -> DaysFromCivil(v.y, v.m, v.d) * SecondsPerDay
    [] v.k = "date" -> v.n
    [] v.k = "http" -> DaysFromCivil(v.y, v.m, v.d) * SecondsPerDay + v.s
    [] OTHER -> -1

\* new Date(v).toUTCString()
ToUTCString(v) ==
  LET t == TimeValue(v)
      z == t \div SecondsPerDay
      c == CivilFromDays(z)
  IN  IF t < 0 THEN InvalidDateString
      ELSE Http(WeekDay(z), c[3], c[2], c[1], t % SecondsPerDay)

\* ------------------------------------------------------------- paths
\* slash(file): backslashes become forward slashes.
slash(file) == [i \in 1..Len(file) |-> IF file[i] = "\\" THEN "/" ELSE file[i]]

\* Index of the last token of p that is in set S, 0 when there is none.
LastIndexOf(p, S) ==
  LET I == {i \in 1..Len(p) : p[i] \in S}
  IN  IF I = {} THEN 0 ELSE CHOOSE i \in I : \A j \in I : j <= i

\* path.basename(p) (posix): what follows the last "/".
basename(p) == SubSeq(p, LastIndexOf(p, {"/"}) + 1, Len(p))

\* path.extname(p) (posix): from the last "." of the base name on, "" when
\* the base name has no "." or only a leading one.
extname(p) ==
  LET b == basename(p)
      dot == LastIndexOf(b, {"."})
  IN  IF dot <= 1 THEN <<>> ELSE SubSeq(b, dot, Len(b))

\* input.endsWith(suffix)
endsWith(input, suffix) ==
  /\ Len(suffix) <= Len(input)
  /\ SubSeq(input, Len(input) - Len(suffix) + 1, Len(input)) = suffix

chompRight(input, suffix) ==
  IF endsWith(input, suffix)
  THEN SubSeq(input, 1, Len(input) - Len(suffix))
  ELSE input

IndexHtml == <<"index", ".", "html">>

\* The segments of p between "/" separators, as a sequence of sequences.
RECURSIVE Segments(_)
Segments(p) ==
  LET I == {i \in 1..Len(p) : p[i] = "/"}
  IN  IF I = {} THEN <<p>>
      ELSE LET i == CHOOSE i \in I : \A j \in I : i <= j
           IN  <<SubSeq(p, 1, i - 1)>> \o Segments(SubSeq(p, i + 1, Len(p)))

\* match(file, pattern)[0] is truthy: the glob patterns in use, with
\* minimatch's rules ("*" and "**" match no segment with a leading ".",
\* "**/" matches zero or more directories).
Match(file, pattern) ==
  LET segs == Segments(file)
      last == segs[Len(segs)]
      visible == \A i \in 1..Len(segs) : segs[i] # <<>> /\ segs[i][1] # "."
  IN  CASE pattern = "**/*.html" ->
             visible /\ Len(last) >= 3 /\ endsWith(last, <<".", "html">>)
        [] pattern = "**/*" -> visible
        [] pattern = "blog/**" ->
             visible /\ Len(segs) >= 2 /\ segs[1] = <<"blog">>
        [] OTHER -> FALSE

\* ------------------------------------------------------------- plugin(opts)
SNull == "<null>"

\* ToBoolean(v) of a string-or-null value (omitPattern).
TruthyS(v) == v \notin {SUndef, SNull, ""}

\* The argument of plugin(): undefined (t = "undefined"), a string s
\* (t = "string") or an options object o (t = "object").
Arg(t, s, o) == [t |-> t, s |-> s, o |-> o]

DefaultPageType == "default"

\* The locals of plugin() that the stage function closes over; opts itself
\* is captured too (the stage reads opts.page_types).
NoCfg ==
  [changefreq |-> SUndef, hostname |-> SUndef, lastmod |-> UndefD,
   omitExtension |-> FALSE, omitIndex |-> FALSE, output |-> <<>>,
   pattern |-> SUndef, omitPattern |-> SNull, hasOverrides |-> FALSE,
   overrides |-> EmptyObj, priority |-> SUndef, beautify_xml |-> FALSE,
   page_types |-> EmptyObj]

SitemapXml == <<"sitemap", ".", "xml">>

\* Lines 43-50: opts = opts || {}; a string becomes {hostname: opts}.
NormalizeOpts(a) ==
  CASE a.t = "undefined" -> EmptyObj
    [] a.t = "string" -> IF a.s = "" THEN EmptyObj ELSE ("hostname" :> a.s)
    [] OTHER -> a.o

\* const changefreq = opts.page_types.default.changefreq || 'weekly'
\* throws a TypeError unless opts.page_types.default is an object.
PageTypesDefaultReadable(opts) ==
  /\ Has(opts, "page_types")
  /\ Has(opts.page_types, DefaultPageType)

\* const priority = isNaN(opts.priority) ? 0.5
\*                                       : opts.page_types.default.proirity
GlobalPriority(opts) ==
  IF IsNaN(Get(opts, "priority"))
  THEN "0.5"
  ELSE Get(opts.page_types[DefaultPageType], "proirity")

\* const changefreq = opts.page_types.default.changefreq || 'weekly'
GlobalChangefreq(opts) ==
  LET v == Get(opts.page_types[DefaultPageType], "changefreq")
  IN  IF Truthy(v) THEN v ELSE "weekly"

\* plugin(opts) without the test of opts.hostname.
plugin_NoHostnameCheck(a) ==
  LET opts == NormalizeOpts(a)
  IN  IF ~PageTypesDefaultReadable(opts)
      THEN [outcome |-> "TypeError", cfg |-> NoCfg]
      ELSE [outcome |-> "ok",
            cfg |-> [NoCfg EXCEPT !.changefreq = GlobalChangefreq(opts),
                                  !.hostname = Get(opts, "hostname"),
                                  !.output = SitemapXml,
                                  !.pattern = "**/*.html",
                                  !.priority = GlobalPriority(opts),
                                  !.page_types = opts.page_types]]

\* plugin(opts): outcome "Error" is the thrown '"hostname" option required',
\* "TypeError" the TypeError of reading opts.page_types.default, "ok" the
\* return of the stage function with its closure cfg.
plugin(a) ==
  LET opts == NormalizeOpts(a)
  IN  IF ~Truthy(Get(opts, "hostname"))
      THEN [outcome |-> "Error", cfg |-> NoCfg]
      ELSE IF ~PageTypesDefaultReadable(opts)
      THEN [outcome |-> "TypeError", cfg |-> NoCfg]
      ELSE [outcome |-> "ok",
            cfg |->
              [changefreq |-> GlobalChangefreq(opts),
               hostname |-> opts.hostname,
               lastmod |-> GetD(opts, "lastmod"),
               omitExtension |-> Flag(opts, "omitExtension"),
               omitIndex |-> Flag(opts, "omitIndex"),
               output |-> IF Has(opts, "output") /\ opts.output # <<>>
                          THEN opts.output ELSE SitemapXml,
               pattern |-> IF Truthy(Get(opts, "pattern"))
                           THEN opts.pattern ELSE "**/*.html",
               omitPattern |-> IF Truthy(Get(opts, "omitPattern"))
                               THEN opts.omitPattern ELSE SNull,
               hasOverrides |-> Has(opts, "overrides"),
               overrides |-> IF Has(opts, "overrides")
                             THEN opts.overrides ELSE EmptyObj,
               priority |-> GlobalPriority(opts),
               beautify_xml |-> Flag(opts, "beautify"),
               page_types |-> opts.page_types]]

\* ------------------------------------------------------------- per file
\* check(file, frontmatter)
check(c, file, frontmatter) ==
  IF ~Match(file, c.pattern) THEN FALSE
  ELSE IF TruthyS(c.omitPattern) /\ Match(file, c.omitPattern) THEN FALSE
  ELSE IF Flag(frontmatter, "private") THEN FALSE
  ELSE TRUE

\* A frontmatter canonical value: a string (str, with its tokens v) or a
\* value of another type.
Canonical(str, v) == [str |-> str, v |-> v]

\* buildUrl with the omitExtension test ahead of the omitIndex test.
buildUrl_ExtensionFirst(c, file, frontmatter) ==
  LET normalizedFile == slash(file)
  IN  IF Has(frontmatter, "canonical") /\ frontmatter.canonical.str
      THEN frontmatter.canonical.v
      ELSE IF c.omitExtension
      THEN chompRight(normalizedFile, extname(normalizedFile))
      ELSE IF c.omitIndex /\ basename(normalizedFile) = IndexHtml
      THEN chompRight(normalizedFile, IndexHtml)
      ELSE normalizedFile

\* buildUrl(file, frontmatter)
buildUrl(c, file, frontmatter) ==
  LET normalizedFile == slash(file)
  IN  IF Has(frontmatter, "canonical") /\ frontmatter.canonical.str
      THEN frontmatter.canonical.v
      ELSE IF c.omitIndex /\ basename(normalizedFile) = IndexHtml
      THEN chompRight(normalizedFile, IndexHtml)
      ELSE IF c.omitExtension
      THEN chompRight(normalizedFile, extname(normalizedFile))
      ELSE normalizedFile

\* Lines 144-148: frontmatter.lastmod = frontmatter.date, or
\* frontmatter.stats.mtime, which throws when there is no stats object.
StatsReadable(frontmatter) ==
  Has(frontmatter, "date") \/ Has(frontmatter, "stats")

SetLastmod(frontmatter) ==
  IF Has(frontmatter, "date")
  THEN ("lastmod" :> frontmatter.date) @@ frontmatter
  ELSE ("lastmod" :> GetD(frontmatter.stats, "mtime")) @@ frontmatter

\* Lines 156-160: a known page type sets changefreq and priority.
SetPageType(c, frontmatter) ==
  IF Has(frontmatter, "page_type") /\ Has(c.page_types, frontmatter.page_type)
  THEN ("changefreq" :> Get(c.page_types[frontmatter.page_type], "changefreq"))
       @@ ("priority" :> Get(c.page_types[frontmatter.page_type], "priority"))
       @@ frontmatter
  ELSE frontmatter

\* Lines 162-168: pickby({changefreq, priority, lastmod}, truthy).
PickEntry(c, frontmatter) ==
  LET cf == IF Truthy(Get(frontmatter, "changefreq"))
            THEN frontmatter.changefreq ELSE c.changefreq
      pr == IF Truthy(Get(frontmatter, "priority"))
            THEN frontmatter.priority ELSE c.priority
      lm == IF TruthyD(GetD(frontmatter, "lastmod"))
            THEN frontmatter.lastmod ELSE c.lastmod
  IN  (IF Truthy(cf) THEN "changefreq" :> cf ELSE EmptyObj)
      @@ (IF Truthy(pr) THEN "priority" :> pr ELSE EmptyObj)
      @@ (IF TruthyD(lm) THEN "lastmod" :> lm ELSE EmptyObj)

\* A value of the overrides map: null, or an object with its fields.
Override(isNull, fields) == [isNull |-> isNull, fields |-> fields]

\* overrides && overrides.hasOwnProperty(file)
HasOverride(c, file) == c.hasOverrides /\ Has(c.overrides, file)

\* Object.keys(override) throws a TypeError for null.
OverrideReadable(c, file) == HasOverride(c, file) => ~c.overrides[file].isNull

\* Lines 170-176: every key of the override is assigned to the entry.
ApplyOverride(c, file, entry) ==
  IF HasOverride(c, file) THEN c.overrides[file].fields @@ entry ELSE entry

\* Lines 179-181
NormalizeLastmod(entry) ==
  IF Has(entry, "lastmod")
  THEN ("lastmod" :> ToUTCString(entry.lastmod)) @@ entry
  ELSE entry

\* Line 186: if (frontmatter.sitemap) Object.assign(entry, frontmatter.sitemap)
AssignSitemap(entry, frontmatter) ==
  IF Has(frontmatter, "sitemap") THEN frontmatter.sitemap @@ entry ELSE entry

\* The frontmatter of an included file after the callback's assignments.
MutatedFrontmatter(c, frontmatter) == SetPageType(c, SetLastmod(frontmatter))

\* The entry the forEach callback pushes for an included file.
BuildEntry(c, file, frontmatter) ==
  LET fm == MutatedFrontmatter(c, frontmatter)
      picked == PickEntry(c, fm)
      overridden == ApplyOverride(c, file, picked)
      normalized == NormalizeLastmod(overridden)
      withUrl == ("url" :> buildUrl(c, file, fm)) @@ normalized
  IN  AssignSitemap(withUrl, fm)


\* ------------------------------------------------------------- serializer
\* The document streamToPromise resolves with: the <urlset> of the entries
\* piped into SitemapStream({hostname}), one <url> per entry, in order.
SitemapDocument(hostname, entries, beautified) ==
  [hostname |-> hostname, urls |-> entries, beautified |-> beautified]

\* The position of path in the file set, 0 when it is not a key.
IndexOfFile(fs, path) ==
  LET I == {j \in 1..Len(fs) : fs[j].file = path}
  IN  IF I = {} THEN 0 ELSE CHOOSE j \in I : TRUE

\* files[path] = data: an existing key keeps its place, a new one is last.
SetFile(fs, path, data) ==
  LET j == IndexOfFile(fs, path)
  IN  IF j = 0
      THEN Append(fs, [file |-> path, data |-> data])
      ELSE [fs EXCEPT ![j] = [file |-> path, data |-> data]]

\* ------------------------------------------------------------- inputs
Hostname == "https://example.com"

About == <<"about", ".", "html">>
BlogIndex == <<"blog", "/", "index", ".", "html">>
BlogIndexWin == <<"blog", "\\", "index", ".", "html">>
BlogPost == <<"blog", "/", "post", ".", "html">>
Index == <<"index", ".", "html">>
Archive == <<"files", "/", "archive", ".", "tar", ".", "gz">>
Readme == <<"docs", "/", "readme">>
StyleCss == <<"style", ".", "css">>
MapXml == <<"map", ".", "xml">>
Custom == <<"/", "custom">>

Date1 == Iso(2021, 6, 1)
Date2 == Iso(2020, 2, 29)
Date3 == Iso(1999, 12, 31)
\* 2021-06-01T01:02:03Z
MTime == DateObj(1622509323)
Stats == ("mtime" :> MTime)

PageTypesBare == (DefaultPageType :> EmptyObj)
PageTypesFull ==
  (DefaultPageType :> ("changefreq" :> "monthly"))
  @@ ("post" :> (("changefreq" :> "daily") @@ ("priority" :> "0.8")))

\* Optional property k with a value from S: absent, or present.
OptProp(k, S) == {EmptyObj} \cup {k :> v : v \in S}

BaseOpts == ("hostname" :> Hostname) @@ ("page_types" :> PageTypesBare)

\* Arguments that differ in how (and whether) the hostname and the page
\* types are given, and in the pattern, output and beautify options.
ArgsSetup ==
  {Arg("undefined", "", EmptyObj), Arg("string", "", EmptyObj),
   Arg("string", Hostname, EmptyObj)}
  \cup {Arg("object", "", h @@ p) :
          h \in OptProp("hostname", {"", Hostname}),
          p \in OptProp("page_types", {EmptyObj, PageTypesBare, PageTypesFull})}
  \cup {Arg("object", "", x @@ o @@ b @@ BaseOpts) :
          x \in OptProp("omitPattern", {"blog/**"}),
          o \in OptProp("output", {MapXml}),
          b \in OptProp("beautify", {TRUE})}

\* Arguments that differ in the options buildUrl and check read.
ArgsUrl ==
  {Arg("object", "", i @@ e @@ p @@ BaseOpts) :
     i \in OptProp("omitIndex", {TRUE}),
     e \in OptProp("omitExtension", {TRUE}),
     p \in OptProp("pattern", {"**/*"})}

OverridesLastmod ==
  {About :> Override(FALSE, "lastmod" :> Date3),
   About :> Override(TRUE, EmptyObj)}

\* Arguments that differ in the sources of lastmod.
ArgsLastmod ==
  {Arg("object", "", l @@ o @@ BaseOpts) :
     l \in OptProp("lastmod", {Date2}),
     o \in OptProp("overrides", OverridesLastmod)}

OverridesFreq ==
  {About :> Override(FALSE, "priority" :> "0.9"),
   About :> Override(FALSE, ("changefreq" :> "never") @@ ("url" :> Custom))}

\* Arguments that differ in the sources of changefreq and priority.
ArgsFreq ==
  {Arg("object", "", c @@ p @@ o @@ ("hostname" :> Hostname) @@ t) :
     c \in OptProp("changefreq", {"daily"}),
     p \in OptProp("priority", {"0.9", "high"}),
     o \in OptProp("overrides", OverridesFreq),
     t \in {"page_types" :> PageTypesBare, "page_types" :> PageTypesFull}}

Args == ArgsSetup \cup ArgsUrl \cup ArgsLastmod \cup ArgsFreq

File(path, data) == [file |-> path, data |-> data]

\* Files that differ in what buildUrl reads.
FilesUrl ==
  {File(p, c @@ ("stats" :> Stats)) :
     p \in {About, BlogIndex, BlogIndexWin, Index, Archive, Readme, StyleCss},
     c \in OptProp("canonical", {Canonical(TRUE, Custom), Canonical(TRUE, <<>>),
                                 Canonical(FALSE, <<>>)})}

\* Files that differ in the sources of lastmod.
FilesLastmod ==
  {File(p, d @@ s @@ m) :
     p \in {About, BlogPost},
     d \in OptProp("date", {Date1, NullD, ToUTCString(MTime)}),
     s \in OptProp("stats", {Stats, EmptyObj}),
     m \in OptProp("sitemap", {"lastmod" :> Date1})}

\* Files that differ in the sources of changefreq and priority.
FilesFreq ==
  {File(p, t @@ c @@ r @@ m @@ ("stats" :> Stats)) :
     p \in {About, BlogPost},
     t \in OptProp("page_type", {"post", "unknown"}),
     c \in OptProp("changefreq", {"yearly"}),
     r \in OptProp("priority", {"0.3", "0"}),
     m \in OptProp("sitemap", {"priority" :> "0.1", "url" :> Custom})}

\* Files to combine into file sets of several files: included, private,
\* without stats, not matching the pattern, and an earlier sitemap.xml.
FilesCore ==
  {File(About, "stats" :> Stats),
   File(BlogIndex, ("private" :> TRUE) @@ ("stats" :> Stats)),
   File(BlogPost, "page_type" :> "post"),
   File(StyleCss, "stats" :> Stats),
   File(SitemapXml, "contents" :> SitemapDocument(Hostname, <<>>, FALSE))}

\* The sequences of at most n files of S with distinct paths (a file set
\* is an object: its keys are distinct and iterate in insertion order).
RECURSIVE FileSeqs(_, _)
FileSeqs(S, n) ==
  IF n = 0 THEN {<<>>}
  ELSE LET shorter == FileSeqs(S, n - 1)
       IN  shorter \cup
           {Append(fs, f) :
              fs \in {x \in shorter : Len(x) = n - 1},
              f \in S} 

DistinctPaths(fs) ==
  \A j, k \in 1..Len(fs) : j # k => fs[j].file # fs[k].file

FileSetsCore == {fs \in FileSeqs(FilesCore, MaxFiles) : DistinctPaths(fs)}

\* ------------------------------------------------------------- state
VARIABLES
  pc,       \* where the program is: see the actions
  arg,      \* the argument plugin() is called with
  cfg,      \* the closure of the stage function
  input,    \* the file set as the pipeline handed it to the stage
  files,    \* the file set
  i,        \* the forEach callback runs next for key i of Object.keys(files)
  links,    \* the entries pushed so far
  signals   \* the arguments done() was called with, in order

vars == <<pc, arg, cfg, input, files, i, links, signals>>

InitWith(A, F) ==
  /\ pc = "start"
  /\ arg \in A
  /\ input \in F
  /\ files = input
  /\ cfg = NoCfg
  /\ i = 0
  /\ links = <<>>
  /\ signals = <<>>

Init ==
  \/ InitWith(Args, FileSetsCore)
  \/ InitWith(ArgsUrl, {<<f>> : f \in FilesUrl})
  \/ InitWith(ArgsLastmod, {<<f>> : f \in FilesLastmod})
  \/ InitWith(ArgsFreq, {<<f>> : f \in FilesFreq})

\* plugin(opts) is called: it throws, or returns the stage function.
Setup ==
  /\ pc = "start"
  /\ LET r == plugin(arg)
     IN  /\ pc' = CASE r.outcome = "ok" -> "constructed"
                    [] r.outcome = "Error" -> "hostname_required"
                    [] OTHER -> "setup_type_error"
         /\ cfg' = r.cfg
  /\ UNCHANGED <<arg, input, files, i, links, signals>>

\* The pipeline calls the stage: links = [], Object.keys(files) is taken.
Stage ==
  /\ pc = "constructed"
  /\ pc' = "forEach"
  /\ links' = <<>>
  /\ i' = 1
  /\ UNCHANGED <<arg, cfg, input, files, signals>>

\* One call of the forEach callback, lines 135-190.
ForEachFile ==
  /\ pc = "forEach"
  /\ i <= Len(files)
  /\ LET file == files[i].file
         frontmatter == files[i].data
     IN  IF ~check(cfg, file, frontmatter)
         THEN /\ i' = i + 1
              /\ UNCHANGED <<pc, files, links>>
         ELSE IF ~StatsReadable(frontmatter)
         THEN /\ pc' = "thrown"
              /\ UNCHANGED <<i, files, links>>
         ELSE IF ~OverrideReadable(cfg, file)
         THEN /\ pc' = "thrown"
              /\ files' = [files EXCEPT ![i].data =
                             MutatedFrontmatter(cfg, frontmatter)]
              /\ UNCHANGED <<i, links>>
         ELSE /\ files' = [files EXCEPT ![i].data =
                             MutatedFrontmatter(cfg, frontmatter)]
              /\ links' = Append(links, BuildEntry(cfg, file, frontmatter))
              /\ i' = i + 1
              /\ UNCHANGED pc
  /\ UNCHANGED <<arg, cfg, input, signals>>

\* Lines 194-198: the entries are piped into the SitemapStream and the
\* stage returns the promise.
Pipe ==
  /\ pc = "forEach"
  /\ i > Len(files)
  /\ pc' = "streaming"
  /\ UNCHANGED <<arg, cfg, input, files, i, links, signals>>

\* The then-callback calling done() without writing files[output].
StreamResolved_DoneWithoutWrite ==
  /\ pc = "streaming"
  /\ signals' = Append(signals, "success")
  /\ pc' = "done"
  /\ UNCHANGED <<arg, cfg, input, files, i, links>>

\* streamToPromise resolves: the then-callback writes files[output] and
\* calls done().
StreamResolved ==
  /\ pc = "streaming"
  /\ files' = SetFile(files, cfg.output,
                      "contents" :> SitemapDocument(cfg.hostname, links,
                                                    cfg.beautify_xml))
  /\ signals' = Append(signals, "success")
  /\ pc' = "done"
  /\ UNCHANGED <<arg, cfg, input, i, links>>

\* streamToPromise rejects: the promise the stage returned is rejected; no
\* rejection handler is attached, so nothing else runs.
StreamRejected ==
  /\ pc = "streaming"
  /\ pc' = "rejected"
  /\ UNCHANGED <<arg, cfg, input, files, i, links, signals>>

Next ==
  \/ Setup
  \/ Stage
  \/ ForEachFile
  \/ Pipe
  \/ StreamResolved
  \/ StreamRejected

Spec == Init /\ [][Next]_vars

\* ------------------------------------------------------------- claims
\* The options object the argument carries (an argument that is not an
\* object carries no option but, at most, the hostname).
Options == IF arg.t = "object" THEN arg.o ELSE EmptyObj

ConfiguredPattern ==
  IF Has(Options, "pattern") THEN Options.pattern ELSE "**/*.html"

\* The file matches pattern, does not match omitPattern (when given) and is
\* not marked private.
Selected(f) ==
  /\ Match(f.file, ConfiguredPattern)
  /\ Has(Options, "omitPattern") => ~Match(f.file, Options.omitPattern)
  /\ ~(Has(f.data, "private") /\ f.data.private)

\* The files of the file set that are to be in the sitemap, in order.
InputSelected == SelectSeq(input, Selected)

\* The forEach pass of the invocation is over: it ran to its end or threw.
PassEnded == pc \in {"thrown", "streaming", "done", "rejected"}

\* The hostname is missing or empty: no argument, an empty string, or an
\* object without a truthy hostname.
HostnameMissing ==
  \/ arg.t = "undefined"
  \/ arg.t = "string" /\ arg.s = ""
  \/ arg.t = "object" /\ (~Has(arg.o, "hostname") \/ arg.o.hostname = "")

\* C1: the entries built by an invocation correspond one to one, in
\* file-set order, to the files that match pattern, do not match
\* omitPattern and are not private; every other file yields no entry.
C1_OneEntryPerSelectedFile ==
  PassEnded =>
    /\ Len(links) = Len(InputSelected)
    /\ \A k \in 1..Len(links) :
         k <= Len(InputSelected) =>
           links[k] = BuildEntry(cfg, InputSelected[k].file,
                                 InputSelected[k].data)

\* The entry has the override's value v under key; a lastmod may also be
\* there in its HTTP-date form.
HasOverrideValue(entry, key, v) ==
  /\ Has(entry, key)
  /\ \/ entry[key] = v
     \/ key = "lastmod" /\ entry[key] = ToUTCString(v)

\* C2: every field of the path-keyed override of a file has the override's
\* value in the file's entry, whatever the other sources set.
C2_OverrideFieldsAppear ==
  \A k \in 1..Len(links) :
    LET file == InputSelected[k].file
    IN  (/\ Has(Options, "overrides")
         /\ Has(Options.overrides, file)
         /\ ~Options.overrides[file].isNull) =>
          \A key \in DOMAIN Options.overrides[file].fields :
            HasOverrideValue(links[k], key,
                             Options.overrides[file].fields[key])

\* The path with every backslash turned into a forward slash.
RECURSIVE Forward(_)
Forward(p) ==
  IF p = <<>> THEN <<>>
  ELSE <<IF Head(p) = "\\" THEN "/" ELSE Head(p)>> \o Forward(Tail(p))

\* The last segment of the forward-slash path q is index.html.
IsIndexHtmlPath(q) ==
  /\ Len(q) >= 3
  /\ q[Len(q) - 2] = "index" /\ q[Len(q) - 1] = "." /\ q[Len(q)] = "html"
  /\ Len(q) > 3 => q[Len(q) - 3] = "/"

\* The forward-slash path q without the extension of its last segment.
WithoutExtension(q) ==
  LET J == {j \in 2..Len(q) :
              /\ q[j] = "." /\ q[j - 1] # "/"
              /\ \A l \in (j + 1)..Len(q) : q[l] \notin {".", "/"}}
  IN  IF J = {} THEN q ELSE SubSeq(q, 1, (CHOOSE j \in J : TRUE) - 1)

\* The URL the precedence chain gives the file f.
ExpectedUrl(f) ==
  LET q == Forward(f.file)
  IN  CASE Has(f.data, "canonical") /\ f.data.canonical.str ->
             f.data.canonical.v
        [] OTHER ->
             IF Has(Options, "omitIndex") /\ Options.omitIndex
                /\ IsIndexHtmlPath(q)
             THEN SubSeq(q, 1, Len(q) - 3)
             ELSE IF Has(Options, "omitExtension") /\ Options.omitExtension
             THEN WithoutExtension(q)
             ELSE q

SitemapSetsUrl(f) == Has(f.data, "sitemap") /\ Has(f.data.sitemap, "url")

HasCanonicalString(f) == Has(f.data, "canonical") /\ f.data.canonical.str

\* C3: the URL derived for an included file is the canonical string if
\* there is one, else the path without index.html (omitIndex), else the
\* path without its extension (omitExtension), else the forward-slash path.
C3_UrlPrecedence ==
  \A k \in 1..Len(links) :
    LET f == InputSelected[k]
    IN  ~SitemapSetsUrl(f) =>
          /\ links[k].url = ExpectedUrl(f)
          /\ HasCanonicalString(f) => links[k].url = f.data.canonical.v
          /\ (/\ ~HasCanonicalString(f)
              /\ Flag(Options, "omitIndex")
              /\ f.file \in {BlogIndex, BlogIndexWin}) =>
               links[k].url = <<"blog", "/">>
          /\ (/\ ~HasCanonicalString(f)
              /\ Flag(Options, "omitExtension")
              /\ f.file = About) =>
               links[k].url = <<"about">>
          /\ (/\ ~HasCanonicalString(f)
              /\ ~Flag(Options, "omitIndex")
              /\ ~Flag(Options, "omitExtension")) =>
               links[k].url = Forward(f.file)

\* A Windows path with index.html, no canonical and omitIndex: "blog/".
C3_Witness ==
  /\ pc = "done"
  /\ Flag(Options, "omitIndex")
  /\ Flag(Options, "omitExtension")
  /\ \E k \in 1..Len(links) :
       /\ InputSelected[k].file = BlogIndexWin
       /\ ~HasCanonicalString(InputSelected[k])
       /\ links[k].url = <<"blog", "/">>

\* The file has no changefreq or priority of its own, names no known page
\* type, and has neither an override nor a sitemap map.
OnlyGlobalDefaults(f) ==
  /\ ~Has(f.data, "changefreq")
  /\ ~Has(f.data, "priority")
  /\ ~(Has(f.data, "page_type") /\ Has(Options, "page_types")
       /\ Has(Options.page_types, f.data.page_type))
  /\ ~(Has(Options, "overrides") /\ Has(Options.overrides, f.file))
  /\ ~Has(f.data, "sitemap")

\* C4: an entry with no other source has the configured changefreq option
\* and the configured priority option, 0.5 when that is not a number.
C4_GlobalDefaults ==
  \A k \in 1..Len(links) :
    LET f == InputSelected[k]
    IN  OnlyGlobalDefaults(f) =>
          /\ Has(Options, "changefreq") =>
               /\ Has(links[k], "changefreq")
               /\ links[k].changefreq = Options.changefreq
          /\ Has(links[k], "priority")
          /\ links[k].priority =
               (IF Has(Options, "priority") /\ Options.priority \in Numeric
                THEN Options.priority ELSE "0.5")

\* C5: with the hostname missing or empty plugin() throws the configuration
\* error: no stage function exists and no file is processed or modified.
C5_MissingHostnameIsFatal ==
  HostnameMissing =>
    /\ pc \in {"start", "hostname_required"}
    /\ cfg = NoCfg
    /\ files = input
    /\ links = <<>>
    /\ signals = <<>>

\* plugin({...}) without a hostname has thrown, the file set being non-empty.
C5_Witness ==
  /\ pc = "hostname_required"
  /\ arg.t = "object"
  /\ Has(arg.o, "page_types")
  /\ Len(input) >= 1

\* C6: plugin() succeeds for every configuration with a non-empty hostname,
\* given as a string or in an object, with or without page types.
C6_SetupSucceeds ==
  (~HostnameMissing /\ pc # "start") =>
    pc \notin {"hostname_required", "setup_type_error"}

\* C7: an invocation ends with exactly one signal to done: success after
\* the document is written, failure when the serializer fails.
C7_ExactlyOneSignal ==
  /\ Len(signals) <= 1
  /\ pc = "done" => signals = <<"success">>
  /\ pc = "rejected" => signals = <<"failure">>

ConfiguredOutput ==
  IF Has(Options, "output") THEN Options.output ELSE SitemapXml

\* What the file set fs holds at the output path, <<>> when nothing.
AtOutput(fs) ==
  LET J == {j \in 1..Len(fs) : fs[j].file = ConfiguredOutput}
  IN  [j \in J |-> fs[j].data]

\* C8: a success signal means the file set holds at the output path the
\* document of all the entries of the invocation; an invocation that ends
\* in failure has written nothing at the output path.
C8_NoPartialSuccess ==
  /\ "success" \in {signals[j] : j \in 1..Len(signals)} =>
       /\ Cardinality(DOMAIN AtOutput(files)) = 1
       /\ \A j \in DOMAIN AtOutput(files) :
            /\ DOMAIN AtOutput(files)[j] = {"contents"}
            /\ AtOutput(files)[j].contents.urls = links
            /\ AtOutput(files)[j].contents.hostname = Options.hostname
       /\ Len(links) = Len(InputSelected)
  /\ pc \in {"thrown", "rejected"} =>
       /\ AtOutput(files) = AtOutput(input)
       /\ signals = <<>>

\* done() was called after an earlier sitemap.xml was replaced by the
\* document of a non-empty entry sequence.
C8_Witness ==
  /\ pc = "done"
  /\ signals = <<"success">>
  /\ Len(links) >= 1
  /\ ConfiguredOutput = SitemapXml
  /\ DOMAIN AtOutput(input) # {}
  /\ AtOutput(files) # AtOutput(input)

IsLeapYear(y) == (y % 4 = 0 /\ y % 100 # 0) \/ y % 400 = 0

DaysInMonth(y, m) ==
  IF m = 2 THEN (IF IsLeapYear(y) THEN 29 ELSE 28)
  ELSE IF m \in {4, 6, 9, 11} THEN 30 ELSE 31

\* Zeller's congruence; 0 = Sunday.
ZellerWeekDay(y, m, d) ==
  LET mm == IF m <= 2 THEN m + 12 ELSE m
      yy == IF m <= 2 THEN y - 1 ELSE y
      K == yy % 100
      J == yy \div 100
      h == (d + (13 * (mm + 1)) \div 5 + K + K \div 4 + J \div 4 + 5 * J) % 7
  IN  (h + 6) % 7

\* v is an HTTP-date string: a date of the calendar with its own weekday
\* and a time of the day.
IsHttpDate(v) ==
  /\ v.k = "http"
  /\ v.m \in 1..12
  /\ v.d \in 1..DaysInMonth(v.y, v.m)
  /\ v.s \in 0..(SecondsPerDay - 1)
  /\ v.wd = ZellerWeekDay(v.y, v.m, v.d)

\* No source supplies a lastmod for the file f.
NoLastmodSource(f) ==
  /\ ~(Has(f.data, "date") /\ TruthyD(f.data.date))
  /\ ~(Has(f.data, "stats") /\ Has(f.data.stats, "mtime"))
  /\ ~Has(Options, "lastmod")
  /\ ~(Has(Options, "overrides") /\ Has(Options.overrides, f.file)
       /\ Has(Options.overrides[f.file].fields, "lastmod")
       /\ TruthyD(Options.overrides[f.file].fields.lastmod))
  /\ ~(Has(f.data, "sitemap") /\ Has(f.data.sitemap, "lastmod"))

\* C9: the lastmod of an entry, whatever its source, is an HTTP-date
\* string, and an entry has no lastmod when no source supplies one.
C9_LastmodIsHttpDate ==
  \A k \in 1..Len(links) :
    /\ Has(links[k], "lastmod") => IsHttpDate(links[k].lastmod)
    /\ NoLastmodSource(InputSelected[k]) => ~Has(links[k], "lastmod")

\* C10: once the plugin is constructed nothing in the file set or in the
\* metadata of a file makes the forEach pass throw.
C10_PassNeverThrows == pc # "thrown"

\* A pass that runs to its end pushes the entries of the selected files,
\* one each, in order.
CompletedPassEntries ==
  pc \in {"streaming", "done", "rejected"} =>
    /\ Len(links) = Len(InputSelected)
    /\ \A k \in 1..Len(links) :
         links[k] = BuildEntry(cfg, InputSelected[k].file,
                               InputSelected[k].data)

====
